---------------------------- MODULE Spec2Model ----------------------------
(***************************************************************************)
(* A model of app/core/ai_agent.py: the text helpers (_normalize_text,     *)
(* _extract_urls, _summarize_sources, _looks_like_toolcall_text) and the   *)
(* entry point get_response_from_ai_agents.                                *)
(*                                                                         *)
(* A Python str is a sequence of one-character strings.  A few fixed       *)
(* literals of the source that are only ever appended or compared whole    *)
(* (the bold section labels, the apology sentence) are one symbol each.    *)
(***************************************************************************)
EXTENDS Integers, Sequences, FiniteSets, TLC

VARIABLES
    pc,                           \* position in the operation being run
    \* --- get_response_from_ai_agents ---
    messages,                     \* argument: list of user strings
    allow_search,                 \* argument
    system_prompt,                \* argument
    HAS_HTML_TX,                  \* module flag _HAS_HTML_TX
    tools,                        \* result of _make_tools
    out_messages,                 \* transcript returned by agent.invoke
    used_tools,
    raw_chunks,
    final_ai_text,
    final_ai_looks_like_toolcall,
    tool_chunks,
    picked_sources,
    synthesis_prompt,
    synth_calls,                  \* number of llm.invoke(synthesis_prompt) calls made
    content,                      \* content of the synthesis reply
    data,                         \* parsed structured reply
    out,                          \* local `out` of the composition step
    refs,                         \* local `refs` of the composition step
    in_except,                    \* the except block of line 259 was entered
    result,                       \* value returned to the caller
    \* --- _normalize_text applied once and twice ---
    s_in, norm_once, norm_twice,
    \* --- _summarize_sources ---
    urls_in, limit_in, picked_out

main_vars == <<messages, allow_search, system_prompt, HAS_HTML_TX, tools,
               out_messages, used_tools, raw_chunks, final_ai_text,
               final_ai_looks_like_toolcall, tool_chunks, picked_sources,
               synthesis_prompt, synth_calls, content, data, out, refs,
               in_except,
               result>>
norm_vars == <<s_in, norm_once, norm_twice>>
src_vars  == <<urls_in, limit_in, picked_out>>
vars      == <<pc, main_vars, norm_vars, src_vars>>

----------------------------------------------------------------------------
(* Bounds of the model *)

\* longest input of _normalize_text over the line-ending alphabet
MaxLen == 6
\* longest input of _normalize_text over the <br> alphabet
MaxTagLen == 4
\* longest list of URLs given to _summarize_sources
MaxUrls == 3
\* largest `limit` given to _summarize_sources
MaxLimit == 3
\* most messages the reasoning loop appends to the conversation
MaxNewMsgs == 2

----------------------------------------------------------------------------
(* Characters and generic sequence helpers *)

LF == "\n"
CR == "\r"

\* what \s, str.rstrip() and str.strip() treat as whitespace (the part of it
\* the model's alphabets contain)
WS == {" ", "\t", LF, CR}

\* str.lower() on the letters the model's alphabets contain
Lower(c) ==
    CASE c = "A" -> "a"
      [] c = "B" -> "b"
      [] c = "R" -> "r"
      [] c = "T" -> "t"
      [] c = "W" -> "w"
      [] OTHER   -> c

LowerStr(s) == [i \in 1..Len(s) |-> Lower(s[i])]

\* all sequences over A of length at most n
RECURSIVE StrsOfLen(_, _)
StrsOfLen(A, n) ==
    IF n = 0 THEN {<<>>}
    ELSE {<<a>> \o t : a \in A, t \in StrsOfLen(A, n - 1)}

Strs(A, n) == UNION {StrsOfLen(A, k) : k \in 0..n}

\* s[i..] starts with p
HasPrefixAt(s, i, p) ==
    /\ i + Len(p) - 1 <= Len(s)
    /\ \A k \in 1..Len(p) : s[i + k - 1] = p[k]

\* same, ignoring case (re.IGNORECASE)
HasPrefixAtCI(s, i, p) ==
    /\ i + Len(p) - 1 <= Len(s)
    /\ \A k \in 1..Len(p) : Lower(s[i + k - 1]) = Lower(p[k])

\* s contains p as a substring
Contains(s, p) == \E i \in 1..(Len(s) + 1) : HasPrefixAt(s, i, p)

\* first index >= i that holds no whitespace (Len(s)+1 if none): a greedy \s*
RECURSIVE SkipWs(_, _)
SkipWs(s, i) ==
    IF i > Len(s) \/ s[i] \notin WS THEN i ELSE SkipWs(s, i + 1)

\* str.rstrip()
RECURSIVE RStrip(_)
RStrip(s) ==
    IF s = <<>> \/ s[Len(s)] \notin WS THEN s
    ELSE RStrip(SubSeq(s, 1, Len(s) - 1))

\* str.lstrip()
LStrip(s) == SubSeq(s, SkipWs(s, 1), Len(s))

\* str.strip()
Strip(s) == RStrip(LStrip(s))

\* s.split(sep) for a one-character sep: always at least one piece
RECURSIVE Split(_, _)
Split(s, sep) ==
    IF \A i \in 1..Len(s) : s[i] # sep THEN <<s>>
    ELSE LET i == CHOOSE k \in 1..Len(s) :
                     s[k] = sep /\ \A j \in 1..(k - 1) : s[j] # sep
         IN  <<SubSeq(s, 1, i - 1)>> \o Split(SubSeq(s, i + 1, Len(s)), sep)

\* sep.join(parts)
RECURSIVE Join(_, _)
Join(parts, sep) ==
    IF parts = <<>> THEN <<>>
    ELSE IF Len(parts) = 1 THEN parts[1]
    ELSE parts[1] \o sep \o Join(Tail(parts), sep)

----------------------------------------------------------------------------
(* _normalize_text, lines 37-44 *)

\* _BR_RE = <\s*br\s*/?\s*> with re.IGNORECASE: the index of the closing '>'
\* of a match that starts at i, or 0 when there is none
BrMatchEnd(s, i) ==
    IF i > Len(s) \/ s[i] # "<" THEN 0
    ELSE LET a == SkipWs(s, i + 1) IN
         IF ~HasPrefixAtCI(s, a, <<"b", "r">>) THEN 0
         ELSE LET b == SkipWs(s, a + 2)
                  c == IF b <= Len(s) /\ s[b] = "/" THEN b + 1 ELSE b
                  d == SkipWs(s, c)
              IN  IF d <= Len(s) /\ s[d] = ">" THEN d ELSE 0

\* _BR_RE.sub("\n", s): leftmost non-overlapping matches
RECURSIVE BrSubFrom(_, _)
BrSubFrom(s, i) ==
    IF i > Len(s) THEN <<>>
    ELSE LET e == BrMatchEnd(s, i) IN
         IF e > 0 THEN <<LF>> \o BrSubFrom(s, e + 1)
         ELSE <<s[i]>> \o BrSubFrom(s, i + 1)

BrSub(s) == BrSubFrom(s, 1)

\* s.replace("\r\n", "\n")
RECURSIVE ReplaceCRLF(_, _)
ReplaceCRLF(s, i) ==
    IF i > Len(s) THEN <<>>
    ELSE IF HasPrefixAt(s, i, <<CR, LF>>) THEN <<LF>> \o ReplaceCRLF(s, i + 2)
    ELSE <<s[i]>> \o ReplaceCRLF(s, i + 1)

\* s.replace("\r", "\n")
ReplaceCR(s) == [i \in 1..Len(s) |-> IF s[i] = CR THEN LF ELSE s[i]]

\* end of the run of newlines that starts at i
RECURSIVE RunEnd(_, _)
RunEnd(s, i) ==
    IF i + 1 <= Len(s) /\ s[i + 1] = LF THEN RunEnd(s, i + 1) ELSE i

\* _MULTIBLANK_RE.sub("\n\n", s) with _MULTIBLANK_RE = \n{3,}
RECURSIVE MultiBlankSub(_, _)
MultiBlankSub(s, i) ==
    IF i > Len(s) THEN <<>>
    ELSE IF HasPrefixAt(s, i, <<LF, LF, LF>>)
         THEN <<LF, LF>> \o MultiBlankSub(s, RunEnd(s, i) + 1)
    ELSE <<s[i]>> \o MultiBlankSub(s, i + 1)

\* "\n".join(line.rstrip() for line in s.split("\n"))
RStripLines(s) ==
    LET lines == Split(s, LF)
    IN  Join([i \in 1..Len(lines) |-> RStrip(lines[i])], <<LF>>)

_normalize_text(s) ==
    IF s = <<>> THEN <<>>
    ELSE LET s1 == BrSub(s)
             s2 == ReplaceCR(ReplaceCRLF(s1, 1))
             s3 == MultiBlankSub(s2, 1)
         IN  Strip(RStripLines(s3))

\* the text holds three or more consecutive newlines
HasBlankRun(s) == Contains(s, <<LF, LF, LF>>)

----------------------------------------------------------------------------
(* Specification NormSpec: _normalize_text applied to every bounded input, *)
(* and then to its own output.                                             *)

LineAlphabet == {"a", " ", LF, CR}
TagAlphabet  == {"<", "b", "R", "/", ">", " ", LF}

NormInputs == Strs(LineAlphabet, MaxLen) \cup Strs(TagAlphabet, MaxTagLen)

\* the values of the locals before they are assigned
NoPrompt == [instructions |-> "none", user_question |-> <<>>, sources |-> <<>>,
             findings |-> <<>>, draft |-> <<>>]
Str(text)   == [is_str |-> TRUE, text |-> text]
NotAString  == [is_str |-> FALSE, text |-> <<>>]
List(items) == [is_list |-> TRUE, items |-> items]
NotAList    == [is_list |-> FALSE, items |-> <<>>]
NoData == [answer |-> Str(<<>>), bullets |-> List(<<>>), references |-> List(<<>>)]

MainIdle ==
    /\ messages = <<>> /\ allow_search = FALSE /\ system_prompt = <<>>
    /\ HAS_HTML_TX = FALSE /\ tools = <<>> /\ out_messages = <<>>
    /\ used_tools = FALSE /\ raw_chunks = <<>> /\ final_ai_text = <<>>
    /\ final_ai_looks_like_toolcall = FALSE /\ tool_chunks = <<>>
    /\ picked_sources = <<>> /\ synthesis_prompt = NoPrompt /\ synth_calls = 0
    /\ content = "none" /\ data = NoData /\ out = <<>> /\ refs = <<>>
    /\ in_except = FALSE
    /\ result = <<>>

NormIdle == s_in = <<>> /\ norm_once = <<>> /\ norm_twice = <<>>

SrcIdle == urls_in = <<>> /\ limit_in = 0 /\ picked_out = <<>>

NormInit ==
    /\ pc = "norm_start"
    /\ s_in \in NormInputs
    /\ norm_once = <<>> /\ norm_twice = <<>>
    /\ MainIdle /\ SrcIdle

NormalizeOnce ==
    /\ pc = "norm_start"
    /\ norm_once' = _normalize_text(s_in)
    /\ pc' = "norm_once"
    /\ UNCHANGED <<s_in, norm_twice, main_vars, src_vars>>

NormalizeTwice ==
    /\ pc = "norm_once"
    /\ norm_twice' = _normalize_text(norm_once)
    /\ pc' = "norm_twice"
    /\ UNCHANGED <<s_in, norm_once, main_vars, src_vars>>

NormNext == NormalizeOnce \/ NormalizeTwice

NormSpec == NormInit /\ [][NormNext]_vars

\* C6: _normalize_text is idempotent: normalizing a normalized text gives
\* the same text.
C6_Idempotent == pc = "norm_twice" => norm_twice = norm_once

\* C7: the output of _normalize_text never holds three or more consecutive
\* newlines (every run of N >= 3 is cut to exactly 2), also when the run
\* comes from <br> tags, \r or \r\n endings, or whitespace-only lines.
C7_NoBlankRun == pc # "norm_start" => ~HasBlankRun(norm_once)

----------------------------------------------------------------------------
(* _extract_urls and _summarize_sources, lines 23 and 46-66 *)

\* index of the first element of s that is in set C, or Len(s)+1
RECURSIVE FindFirst(_, _, _)
FindFirst(s, i, C) ==
    IF i > Len(s) \/ s[i] \in C THEN i ELSE FindFirst(s, i + 1, C)

\* characters urlsplit accepts in a scheme (those the model's URLs contain)
SchemeChars == {"a", "b", "c", "e", "h", "o", "p", "s", "t", "w", "x",
                "A", "R", "+", "-", "."}
SchemeFirst == SchemeChars \ {"+", "-", "."}

\* what urlsplit leaves after it has split off "<scheme>:"
AfterScheme(url) ==
    LET i == FindFirst(url, 1, {":"})
    IN  IF /\ i > 1 /\ i <= Len(url)
           /\ url[1] \in SchemeFirst
           /\ \A k \in 1..(i - 1) : url[k] \in SchemeChars
        THEN SubSeq(url, i + 1, Len(url))
        ELSE url

\* urlparse(url).netloc before validation: what follows "//" up to the first
\* of "/", "?", "#"
Netloc(url) ==
    LET rest == AfterScheme(url)
    IN  IF HasPrefixAt(rest, 1, <<"/", "/">>)
        THEN SubSeq(rest, 3, FindFirst(rest, 3, {"/", "?", "#"}) - 1)
        ELSE <<>>

IsIn(c, s) == \E i \in 1..Len(s) : s[i] = c

\* urlparse raises ValueError("Invalid IPv6 URL") on an unbalanced bracket
UrlparseRaises(url) ==
    LET n == Netloc(url)
    IN  \/ IsIn("[", n) /\ ~IsIn("]", n)
        \/ IsIn("]", n) /\ ~IsIn("[", n)

WWW_DOT == <<"w", "w", "w", ".">>

\* lines 55-57: dom = urlparse(url).netloc.lower(), a leading "www." dropped
DomainOf(url) ==
    LET dom == LowerStr(Netloc(url))
    IN  IF HasPrefixAt(dom, 1, WWW_DOT) THEN SubSeq(dom, 5, Len(dom)) ELSE dom

\* line 62: the loop stops once this holds
LimitReached(picked, limit) == Len(picked) >= limit

\* the loop of lines 53-65 from the i-th URL on
RECURSIVE SummarizeFrom(_, _, _, _, _)
SummarizeFrom(urls, i, limit, seen, picked) ==
    IF i > Len(urls) THEN picked
    ELSE LET url == urls[i] IN
         IF UrlparseRaises(url)
         THEN SummarizeFrom(urls, i + 1, limit, seen, picked)   \* except: continue
         ELSE LET dom == DomainOf(url)
                  key == <<dom, url>>
              IN  IF dom # <<>> /\ key \notin seen
                  THEN LET picked2 == Append(picked, key) IN
                       IF LimitReached(picked2, limit) THEN picked2
                       ELSE SummarizeFrom(urls, i + 1, limit,
                                          seen \cup {key}, picked2)
                  ELSE SummarizeFrom(urls, i + 1, limit, seen, picked)

_summarize_sources(urls, limit) == SummarizeFrom(urls, 1, limit, {}, <<>>)

\* characters that end a match of _URL_RE = https?://[^\s\]\)\}<>"']+
UrlStop == WS \cup {"]", ")", "}", "<", ">", "\"", "'"}

HTTP  == <<"h", "t", "t", "p", ":", "/", "/">>
HTTPS == <<"h", "t", "t", "p", "s", ":", "/", "/">>

\* the index of the last character of a match of _URL_RE that starts at i,
\* or 0 when there is none
UrlMatchEnd(s, i) ==
    LET body == IF HasPrefixAt(s, i, HTTPS) THEN i + Len(HTTPS)
                ELSE IF HasPrefixAt(s, i, HTTP) THEN i + Len(HTTP)
                ELSE 0
    IN  IF body = 0 \/ body > Len(s) \/ s[body] \in UrlStop THEN 0
        ELSE FindFirst(s, body, UrlStop) - 1

\* _URL_RE.findall(text): leftmost non-overlapping matches
RECURSIVE FindUrls(_, _)
FindUrls(s, i) ==
    IF i > Len(s) THEN <<>>
    ELSE LET e == UrlMatchEnd(s, i) IN
         IF e > 0 THEN <<SubSeq(s, i, e)>> \o FindUrls(s, e + 1)
         ELSE FindUrls(s, i + 1)

_extract_urls(text) == FindUrls(text, 1)

----------------------------------------------------------------------------
(* Specification SrcSpec: _summarize_sources applied to every bounded list *)
(* of URLs and every bounded limit.                                        *)

U_A      == HTTP \o <<"a", ".", "c", "o", "/", "x">>
U_WWW_A  == HTTP \o WWW_DOT \o <<"A", ".", "c", "o", "/", "x">>
U_B      == HTTPS \o <<"b", ".", "c", "o">>
U_NOHOST == HTTP \o <<"/", "p">>
U_BAD    == HTTP \o <<"[", "b">>
U_WWW    == HTTP \o WWW_DOT

UrlPool == {U_A, U_WWW_A, U_B, U_NOHOST, U_BAD, U_WWW}

SrcInit ==
    /\ pc = "src_start"
    /\ urls_in \in Strs(UrlPool, MaxUrls)
    /\ limit_in \in 0..MaxLimit
    /\ picked_out = <<>>
    /\ MainIdle /\ NormIdle

SummarizeSources ==
    /\ pc = "src_start"
    /\ picked_out' = _summarize_sources(urls_in, limit_in)
    /\ pc' = "src_done"
    /\ UNCHANGED <<urls_in, limit_in, main_vars, norm_vars>>

SrcNext == SummarizeSources

SrcSpec == SrcInit /\ [][SrcNext]_vars

\* the (domain, url) pairs of the URLs that parse and have a non-empty
\* domain, each kept at its first occurrence
RECURSIVE DistinctPairs(_, _)
DistinctPairs(urls, acc) ==
    IF urls = <<>> THEN acc
    ELSE LET url == Head(urls)
             key == <<DomainOf(url), url>>
         IN  IF /\ ~UrlparseRaises(url)
                /\ DomainOf(url) # <<>>
                /\ \A i \in 1..Len(acc) : acc[i] # key
             THEN DistinctPairs(Tail(urls), Append(acc, key))
             ELSE DistinctPairs(Tail(urls), acc)

Min(a, b) == IF a <= b THEN a ELSE b

\* C8: for every list of URLs and every limit >= 0, _summarize_sources
\* returns at most `limit` entries, pairwise distinct, with a non-empty
\* domain, and they are exactly the first min(limit, k) distinct pairs in
\* first-seen order.
C8_FirstLimitPairs ==
    pc = "src_done" =>
        LET all == DistinctPairs(urls_in, <<>>)
        IN  /\ Len(picked_out) <= limit_in
            /\ \A i, j \in 1..Len(picked_out) :
                   i # j => picked_out[i] # picked_out[j]
            /\ \A i \in 1..Len(picked_out) : picked_out[i][1] # <<>>
            /\ picked_out = SubSeq(all, 1, Min(limit_in, Len(all)))

----------------------------------------------------------------------------
(* _looks_like_toolcall_text, lines 28-35 and 86-90 *)

\* the alternation (?:function|tool|tavily[_-]?\w*|search)
ToolcallNames ==
    { <<"f", "u", "n", "c", "t", "i", "o", "n">>,
      <<"t", "o", "o", "l">>,
      <<"t", "a", "v", "i", "l", "y">>,
      <<"s", "e", "a", "r", "c", "h">> }

\* _TOOLCALL_INLINE_RE matches at i:  < \s* name \s* [^>]* > \s* \{ .* \}
\* (IGNORECASE, DOTALL).  What follows the name up to '>' is any text without
\* '>' -- [_-]?\w*, \s* and [^>]* together match exactly that -- so '>' is the
\* first one after the name.
ToolcallMatchAt(s, i) ==
    /\ i <= Len(s) /\ s[i] = "<"
    /\ LET a == SkipWs(s, i + 1) IN
       \E name \in ToolcallNames :
          /\ HasPrefixAtCI(s, a, name)
          /\ LET g == FindFirst(s, a + Len(name), {">"})
                 o == SkipWs(s, g + 1)
             IN  /\ g <= Len(s)
                 /\ o <= Len(s) /\ s[o] = "{"
                 /\ \E c \in (o + 1)..Len(s) : s[c] = "}"

_looks_like_toolcall_text(s) ==
    IF s = <<>> THEN FALSE
    ELSE \E i \in 1..Len(s) : ToolcallMatchAt(s, i)

----------------------------------------------------------------------------
(* Messages, lines 68-84 *)

\* a message: its class, its "type" (what a dict-shaped message carries), its
\* content and whether it carries tool_calls
Msg(cls, type, text, calls) ==
    [cls |-> cls, type |-> type, content |-> text, tool_calls |-> calls]

SystemMessage(text) == Msg("SystemMessage", "system", text, FALSE)
HumanMessage(text)  == Msg("HumanMessage", "human", text, FALSE)
AIMessage(text, calls) == Msg("AIMessage", "ai", text, calls)
ToolMessage(text)   == Msg("ToolMessage", "tool", text, FALSE)
DictMessage(type, text) == Msg("dict", type, text, FALSE)

_is_tool_message(m) ==
    \/ m.cls = "ToolMessage"
    \/ m.cls = "dict" /\ m.type = "tool"

_get_message_content(m) == m.content

\* line 159: isinstance(m, AIMessage) and not getattr(m, "tool_calls", None)
IsPlainAIMessage(m) == m.cls = "AIMessage" /\ ~m.tool_calls

----------------------------------------------------------------------------
(* Pieces of get_response_from_ai_agents, lines 113-265 *)

\* lines 136-138: System (if any) + each user message as Human
Convo(sys, msgs) ==
    (IF sys # <<>> THEN <<SystemMessage(sys)>> ELSE <<>>)
        \o [i \in 1..Len(msgs) |-> HumanMessage(msgs[i])]

\* lines 147-152
UsedTools(msgs) == \E i \in 1..Len(msgs) : _is_tool_message(msgs[i])

RawChunks(msgs) ==
    LET tool == SelectSeq(msgs, _is_tool_message)
    IN  [i \in 1..Len(tool) |-> _get_message_content(tool[i])]

\* a scan that takes any non-empty candidate
IsNonEmptyCandidate(candidate) == candidate # <<>>

\* line 161: the candidate is taken as final_ai_text
IsCleanCandidate(candidate) ==
    candidate # <<>> /\ ~_looks_like_toolcall_text(candidate)

\* lines 155-167, the reverse scan from message i down: the pair
\* <<final_ai_text, final_ai_looks_like_toolcall>>
RECURSIVE ScanDown(_, _, _)
ScanDown(msgs, i, marked) ==
    IF i = 0 THEN <<(<<>>), marked>>
    ELSE IF IsPlainAIMessage(msgs[i])
         THEN LET candidate == _normalize_text(msgs[i].content) IN
              IF IsCleanCandidate(candidate) THEN <<candidate, marked>>  \* break
              ELSE ScanDown(msgs, i - 1, TRUE)
    ELSE ScanDown(msgs, i - 1, marked)

\* a scan that runs oldest first
RECURSIVE ScanUp(_, _, _)
ScanUp(msgs, i, marked) ==
    IF i > Len(msgs) THEN <<(<<>>), marked>>
    ELSE IF IsPlainAIMessage(msgs[i])
         THEN LET candidate == _normalize_text(msgs[i].content) IN
              IF IsCleanCandidate(candidate) THEN <<candidate, marked>>
              ELSE ScanUp(msgs, i + 1, TRUE)
    ELSE ScanUp(msgs, i + 1, marked)

ScanFromStart(msgs) == ScanUp(msgs, 1, FALSE)

ScanFinalAiText(msgs) == ScanDown(msgs, Len(msgs), FALSE)

\* a fast path that does not look at used_tools
FastPathIgnoringTools(used, final) == final # <<>>

\* line 170
TakesFastPath(used, final) == ~used /\ final # <<>>

\* lines 181/183: [_normalize_text(t) for t in raw_chunks]
NormalizedChunks(chunks) ==
    [i \in 1..Len(chunks) |-> _normalize_text(chunks[i])]

\* lines 176-179: Html2TextTransformer over the normalized chunks, one
\* document out per document in; html2text ends its output with a blank line
\* when `pad`
Html2Text(chunks, pad) ==
    [i \in 1..Len(chunks) |->
        _normalize_text(chunks[i]) \o (IF pad THEN <<LF, LF>> ELSE <<>>)]

\* lines 186-188
RECURSIVE AllUrls(_)
AllUrls(chunks) ==
    IF chunks = <<>> THEN <<>>
    ELSE _extract_urls(Head(chunks)) \o AllUrls(Tail(chunks))

\* line 189: limit=5
SOURCE_LIMIT == 5

\* line 216: [:8000]
FINDINGS_BUDGET == 8000

Take(s, n) == SubSeq(s, 1, Min(n, Len(s)))

NonEmpty(x) == x # <<>>

\* line 216
FindingsText(chunks) ==
    Take(Join(SelectSeq(chunks, NonEmpty), <<LF, LF>>), FINDINGS_BUDGET)

\* f"{dom} -- {url}": one entry of `Allowed sources` (the dash is one symbol)
SourceLine(src) == src[1] \o <<" ", "--", " ">> \o src[2]

\* line 205: `if tool_chunks:` chooses the grounded instructions
HasFindings(chunks) == chunks # <<>>

\* lines 205-241
SynthesisPrompt(chunks, msgs, sources, final) ==
    LET user_question == IF msgs # <<>> THEN msgs[Len(msgs)] ELSE <<>>
        draft == IF final # <<>> THEN final ELSE <<"(none)">>
    IN  IF HasFindings(chunks)
        THEN [instructions |-> "grounded",
              user_question |-> user_question,
              sources |-> sources,
              findings |-> IF FindingsText(chunks) # <<>>
                           THEN FindingsText(chunks)
                           ELSE <<"(no findings captured)">>,
              draft |-> draft]
        ELSE [instructions |-> "no_findings",
              user_question |-> user_question,
              sources |-> <<>>,
              findings |-> <<>>,
              draft |-> draft]

KEY_POINTS_HDR == <<LF, LF, "**Key points**", LF>>
REFERENCES_HDR == <<LF, LF, "**References**", LF>>

\* "\n".join(f"- {str(x).strip()}" for x in items if str(x).strip())
ItemLines(items) ==
    LET kept == SelectSeq([i \in 1..Len(items) |-> Strip(items[i])], NonEmpty)
    IN  Join([i \in 1..Len(kept) |-> <<"-", " ">> \o kept[i]], <<LF>>)

\* lines 250-251 and 254-255: `data.get(key) or []`, rendered only when it is
\* a non-empty list
ListItems(v) == IF v.is_list THEN v.items ELSE <<>>

\* lines 248-256: the composed `out`
Compose(d) ==
    LET bullets == ListItems(d.bullets)
        rs      == ListItems(d.references)
    IN  _normalize_text(d.answer.text)
          \o (IF bullets # <<>> THEN KEY_POINTS_HDR \o ItemLines(bullets) ELSE <<>>)
          \o (IF rs # <<>> THEN REFERENCES_HDR \o ItemLines(rs) ELSE <<>>)

\* line 258: out.strip() or final_ai_text
ComposedOrFinal(o, final) == IF Strip(o) # <<>> THEN Strip(o) ELSE final

APOLOGY == <<"I couldn't complete the web-search step just now, so I answered from general knowledge.">>

\* a fallback that never hands back final_ai_text
AlwaysApology(final) == APOLOGY

\* lines 262-265
ExceptFallback(final) ==
    IF final # <<>> /\ ~_looks_like_toolcall_text(final) THEN final
    ELSE APOLOGY

----------------------------------------------------------------------------
(* Specification Spec: one call of get_response_from_ai_agents, with every *)
(* behaviour of its collaborators (model client, tool, agent, HTML         *)
(* cleaner, parser, synthesis reply) taken from small sets.                *)

T_EMPTY    == <<>>
T_BLANK    == <<" ", LF>>
T_OK       == <<"o", "k">>
T_DRAFT    == <<"a", " ", CR, LF>>
T_ARTIFACT == <<"<", "T", "o", "o", "l", ">", " ", "{", "}">>
T_BR       == <<"<", "b", "r", ">">>
T_FINDINGS == <<"s", "e", "e", " ">> \o U_WWW_A \o <<" ", "<", "b", "r", "/", ">">> \o U_B
T_QUESTION == <<"q", "?">>
T_SYSTEM   == <<"s", "y", "s">>
T_ANSWER   == <<"y", "e", "s", LF, LF, LF, "!", " ">>
T_BULLET   == <<" ", "b", "1">>
FAKE_REF   == <<"e", ".", "c", "o", " ", "--", " ">> \o HTTP \o <<"e", ".", "c", "o">>

\* what the reasoning loop can append when it has no tool
AiPool ==
    { AIMessage(T_OK, FALSE), AIMessage(T_DRAFT, FALSE),
      AIMessage(T_ARTIFACT, FALSE), AIMessage(T_BLANK, FALSE),
      AIMessage(T_EMPTY, TRUE), DictMessage("ai", T_OK) }

\* and what the search tool adds to that
ToolPool ==
    { ToolMessage(T_FINDINGS), ToolMessage(T_BR),
      DictMessage("tool", T_FINDINGS) }

\* the whitelist as the reply may cite it (padded, to be stripped), if any
Cited(sources) ==
    List([i \in 1..Len(sources) |-> <<" ">> \o SourceLine(sources[i])])

Reply(answer, bullets, references) ==
    [answer |-> answer, bullets |-> bullets, references |-> references]

\* structured replies the synthesis step can parse, given the whitelist
DataPool(sources) ==
    { Reply(Str(T_ANSWER), List(<<T_BULLET, T_BLANK>>), Cited(sources)),
      Reply(Str(T_ANSWER), List(<<>>), List(<<FAKE_REF>>)),
      Reply(Str(T_ANSWER), List(<<T_BULLET>>), NotAList),
      Reply(Str(<<>>), List(<<>>), List(<<>>)),
      Reply(Str(T_BLANK), NotAList, List(<<T_BLANK>>)),
      Reply(NotAString, List(<<>>), List(<<>>)) }

Init ==
    /\ pc = "start"
    /\ messages \in {<<>>, <<T_QUESTION>>}
    /\ allow_search \in BOOLEAN
    /\ system_prompt \in {<<>>, T_SYSTEM}
    /\ HAS_HTML_TX \in BOOLEAN
    /\ tools = <<>> /\ out_messages = <<>>
    /\ used_tools = FALSE /\ raw_chunks = <<>> /\ final_ai_text = <<>>
    /\ final_ai_looks_like_toolcall = FALSE /\ tool_chunks = <<>>
    /\ picked_sources = <<>> /\ synthesis_prompt = NoPrompt /\ synth_calls = 0
    /\ content = "none" /\ data = NoData /\ out = <<>> /\ refs = <<>>
    /\ in_except = FALSE /\ result = <<>>
    /\ NormIdle /\ SrcIdle

\* an exception leaves the function
Raise ==
    /\ pc' = "raised"

\* line 124: ChatGroq(...) returns a client or raises
ConstructLLM ==
    /\ pc = "start"
    /\ \/ pc' = "make_tools"
       \/ Raise
    /\ UNCHANGED <<main_vars, norm_vars, src_vars>>

\* lines 95-108 and 127: _make_tools; a failing TavilySearch(...) is caught
MakeTools ==
    /\ pc = "make_tools"
    /\ \/ ~allow_search /\ tools' = <<>>
       \/ allow_search /\ tools' = <<"TavilySearch">>
       \/ allow_search /\ tools' = <<>>          \* except Exception: return []
    /\ pc' = "create_agent"
    /\ UNCHANGED <<messages, allow_search, system_prompt, HAS_HTML_TX,
                   out_messages, used_tools, raw_chunks, final_ai_text,
                   final_ai_looks_like_toolcall, tool_chunks, picked_sources,
                   synthesis_prompt, synth_calls, content, data, out, refs,
                   in_except, result, norm_vars, src_vars>>

\* lines 130-133: create_react_agent(prompt=...); on TypeError the call is
\* repeated with state_modifier=..., outside any try
CreateAgent ==
    /\ pc = "create_agent"
    /\ \E first \in {"ok", "TypeError", "other"}, second \in {"ok", "raises"} :
          IF first = "ok" \/ (first = "TypeError" /\ second = "ok")
          THEN pc' = "invoke"
          ELSE Raise
    /\ UNCHANGED <<main_vars, norm_vars, src_vars>>

\* lines 136-144: the conversation is built and agent.invoke returns the
\* transcript (the conversation plus what the loop appended) or raises
Invoke ==
    /\ pc = "invoke"
    /\ \/ /\ \E new \in Strs(IF tools # <<>> THEN AiPool \cup ToolPool
                             ELSE AiPool, MaxNewMsgs) :
                out_messages' = Convo(system_prompt, messages) \o new
          /\ pc' = "gather"
       \/ /\ Raise
          /\ UNCHANGED out_messages
    /\ UNCHANGED <<messages, allow_search, system_prompt, HAS_HTML_TX, tools,
                   used_tools, raw_chunks, final_ai_text,
                   final_ai_looks_like_toolcall, tool_chunks, picked_sources,
                   synthesis_prompt, synth_calls, content, data, out, refs,
                   in_except, result, norm_vars, src_vars>>

\* lines 146-167: tool outputs are gathered and the final AI text is found
Reconcile ==
    /\ pc = "gather"
    /\ used_tools' = UsedTools(out_messages)
    /\ raw_chunks' = RawChunks(out_messages)
    /\ final_ai_text' = ScanFinalAiText(out_messages)[1]
    /\ final_ai_looks_like_toolcall' = ScanFinalAiText(out_messages)[2]
    /\ pc' = "decide"
    /\ UNCHANGED <<messages, allow_search, system_prompt, HAS_HTML_TX, tools,
                   out_messages, tool_chunks, picked_sources,
                   synthesis_prompt, synth_calls, content, data, out, refs,
                   in_except, result, norm_vars, src_vars>>

\* lines 170-171: the fast path returns final_ai_text
FastPath ==
    /\ pc = "decide"
    /\ TakesFastPath(used_tools, final_ai_text)
    /\ result' = final_ai_text
    /\ pc' = "returned"
    /\ UNCHANGED <<messages, allow_search, system_prompt, HAS_HTML_TX, tools,
                   out_messages, used_tools, raw_chunks, final_ai_text,
                   final_ai_looks_like_toolcall, tool_chunks, picked_sources,
                   synthesis_prompt, synth_calls, content, data, out, refs,
                   in_except, norm_vars, src_vars>>

\* lines 173-190: the tool text is cleaned (through Html2TextTransformer when
\* it is there; if it raises, by _normalize_text alone) and the sources are
\* picked
CleanAndPick ==
    /\ pc = "decide"
    /\ ~TakesFastPath(used_tools, final_ai_text)
    /\ \E tx \in {"raises", "plain", "padded"} :
          tool_chunks' =
              IF HAS_HTML_TX /\ raw_chunks # <<>> /\ tx # "raises"
              THEN Html2Text(raw_chunks, tx = "padded")
              ELSE NormalizedChunks(raw_chunks)
    /\ picked_sources' = _summarize_sources(AllUrls(tool_chunks'), SOURCE_LIMIT)
    /\ pc' = "build_parser"
    /\ UNCHANGED <<messages, allow_search, system_prompt, HAS_HTML_TX, tools,
                   out_messages, used_tools, raw_chunks, final_ai_text,
                   final_ai_looks_like_toolcall, synthesis_prompt,
                   synth_calls, content, data, out, refs, in_except, result,
                   norm_vars, src_vars>>

\* lines 193-241: the parsers are built (outside the try: a failure leaves
\* the function) and the synthesis request is put together
BuildSynthesis ==
    /\ pc = "build_parser"
    /\ \/ /\ synthesis_prompt' =
                SynthesisPrompt(tool_chunks, messages, picked_sources,
                                final_ai_text)
          /\ pc' = "synthesize"
       \/ /\ Raise
          /\ UNCHANGED synthesis_prompt
    /\ UNCHANGED <<messages, allow_search, system_prompt, HAS_HTML_TX, tools,
                   out_messages, used_tools, raw_chunks, final_ai_text,
                   final_ai_looks_like_toolcall, tool_chunks, picked_sources,
                   synth_calls, content, data, out, refs, in_except, result,
                   norm_vars, src_vars>>

\* lines 244-245: llm.invoke(synthesis_prompt) answers with well-formed or
\* malformed content, or raises into the except block
Synthesize ==
    /\ pc = "synthesize"
    /\ synth_calls' = synth_calls + 1
    /\ \/ /\ content' \in {"json", "malformed"}
          /\ pc' = "parse"
          /\ UNCHANGED in_except
       \/ /\ in_except' = TRUE
          /\ pc' = "except"
          /\ UNCHANGED content
    /\ UNCHANGED <<messages, allow_search, system_prompt, HAS_HTML_TX, tools,
                   out_messages, used_tools, raw_chunks, final_ai_text,
                   final_ai_looks_like_toolcall, tool_chunks, picked_sources,
                   synthesis_prompt, data, out, refs, result, norm_vars,
                   src_vars>>

\* line 246: fixing_parser.parse(content); malformed content goes through the
\* fix-up pass, which yields a structured reply or raises
Parse ==
    /\ pc = "parse"
    /\ \/ /\ data' \in DataPool(picked_sources)
          /\ pc' = "compose"
          /\ UNCHANGED in_except
       \/ /\ content = "malformed"
          /\ in_except' = TRUE
          /\ pc' = "except"
          /\ UNCHANGED data
    /\ UNCHANGED <<messages, allow_search, system_prompt, HAS_HTML_TX, tools,
                   out_messages, used_tools, raw_chunks, final_ai_text,
                   final_ai_looks_like_toolcall, tool_chunks, picked_sources,
                   synthesis_prompt, synth_calls, content, out, refs, result,
                   norm_vars, src_vars>>

\* lines 248-258: the answer is composed and returned; an `answer` that is
\* no string makes _normalize_text raise into the except block
ComposeAndReturn ==
    /\ pc = "compose"
    /\ IF data.answer.is_str
       THEN /\ out' = Compose(data)
            /\ refs' = ListItems(data.references)
            /\ result' = ComposedOrFinal(out', final_ai_text)
            /\ pc' = "returned"
            /\ UNCHANGED in_except
       ELSE /\ in_except' = TRUE
            /\ pc' = "except"
            /\ UNCHANGED <<out, refs, result>>
    /\ UNCHANGED <<messages, allow_search, system_prompt, HAS_HTML_TX, tools,
                   out_messages, used_tools, raw_chunks, final_ai_text,
                   final_ai_looks_like_toolcall, tool_chunks, picked_sources,
                   synthesis_prompt, synth_calls, content, data, norm_vars,
                   src_vars>>

\* lines 259-265: the except block returns a fallback
Except ==
    /\ pc = "except"
    /\ result' = ExceptFallback(final_ai_text)
    /\ pc' = "returned"
    /\ UNCHANGED <<messages, allow_search, system_prompt, HAS_HTML_TX, tools,
                   out_messages, used_tools, raw_chunks, final_ai_text,
                   final_ai_looks_like_toolcall, tool_chunks, picked_sources,
                   synthesis_prompt, synth_calls, content, data, out, refs,
                   in_except, norm_vars, src_vars>>

Next ==
    \/ ConstructLLM
    \/ MakeTools
    \/ CreateAgent
    \/ Invoke
    \/ Reconcile
    \/ FastPath
    \/ CleanAndPick
    \/ BuildSynthesis
    \/ Synthesize
    \/ Parse
    \/ ComposeAndReturn
    \/ Except

Spec == Init /\ [][Next]_vars

----------------------------------------------------------------------------
(* The claims about get_response_from_ai_agents, under Spec *)

\* the role of a message, whatever its shape
HasToolRole(m) == m.type = "tool"

NoToolMessage(msgs) == \A i \in 1..Len(msgs) : ~HasToolRole(msgs[i])

\* message i is an AIMessage that requested no tool call and whose
\* normalized content is non-empty and not artifact-like
Qualifies(msgs, i) ==
    /\ msgs[i].cls = "AIMessage"
    /\ ~msgs[i].tool_calls
    /\ LET text == _normalize_text(msgs[i].content)
       IN  text # <<>> /\ ~_looks_like_toolcall_text(text)

\* the normalized content of the last qualifying message, or the empty text
LastCleanAi(msgs) ==
    LET Q == {i \in 1..Len(msgs) : Qualifies(msgs, i)}
    IN  IF Q = {} THEN <<>>
        ELSE _normalize_text(msgs[CHOOSE i \in Q : \A j \in Q : j <= i].content)

\* the reverse scan has run
Scanned ==
    pc \in {"decide", "build_parser", "synthesize", "parse", "compose",
            "except", "returned"}

\* the synthesis request has been built
Prompted == synthesis_prompt.instructions # "none"

\* C1: whatever the collaborators do, get_response_from_ai_agents returns a
\* string: no exception ever leaves it.
C1_NeverRaises == pc # "raised"

C3_ExceptionFallback ==
    in_except =>
        /\ pc \in {"except", "returned"}
        /\ pc = "returned" =>
              result = IF /\ final_ai_text # <<>>
                          /\ ~_looks_like_toolcall_text(final_ai_text)
                       THEN final_ai_text
                       ELSE APOLOGY

\* C3's case: synthesis raised after a clean draft was found beside tool output
C3_Witness ==
    /\ pc = "returned" /\ in_except /\ used_tools
    /\ final_ai_text # <<>> /\ result = final_ai_text

\* C4: the grounded instructions are used only when at least one tool chunk
\* has non-empty normalized content; whenever no findings were captured the
\* request carries the "no findings" instructions.
C4_NoFindingsInstructions ==
    Prompted =>
        ((synthesis_prompt.instructions = "grounded")
            <=> \E i \in 1..Len(tool_chunks) :
                    _normalize_text(tool_chunks[i]) # <<>>)

\* the whitelist as `Allowed sources` lists it
Whitelist == {SourceLine(picked_sources[i]) : i \in 1..Len(picked_sources)}

\* C5: the returned string has a "References" section only if the returned
\* references are non-empty and every one of them that is rendered is drawn
\* from the source whitelist of this call: no other reference is returned.
C5_ReferencesWhitelisted ==
    pc = "returned" /\ IsIn("**References**", result) =>
        /\ refs # <<>>
        /\ \A i \in 1..Len(refs) :
              Strip(refs[i]) # <<>> => Strip(refs[i]) \in Whitelist

C10_FinalTextNeverArtifact ==
    /\ \/ final_ai_text = <<>>
       \/ /\ ~_looks_like_toolcall_text(final_ai_text)
          /\ \E i \in 1..Len(out_messages) :
                /\ out_messages[i].cls = "AIMessage"
                /\ final_ai_text = _normalize_text(out_messages[i].content)
    /\ pc = "returned" /\ (synth_calls = 0 \/ in_except \/ Strip(out) = <<>>) =>
          ~_looks_like_toolcall_text(result)
    /\ pc = "returned" /\ in_except =>
          result = IF final_ai_text # <<>> THEN final_ai_text ELSE APOLOGY

\* C10's case: the latest AI message was artifact-like, the scan skipped it,
\* and the text handed back is the clean one found before it
C10_Witness ==
    /\ pc = "returned"
    /\ out_messages # <<>>
    /\ out_messages[Len(out_messages)] = AIMessage(T_ARTIFACT, FALSE)
    /\ result = final_ai_text /\ final_ai_text # <<>>

============================================================================
